---- MODULE Spec2Model ----
(***************************************************************************)
(* State-machine model of the nest-schedule job registry (Scheduler) and   *)
(* of the trigger -> execution pipeline it drives.                         *)
(*                                                                         *)
(* The registry (Scheduler.jobs) maps a key to a job object.  Every        *)
(* registration creates one job object and one trigger (a node-schedule    *)
(* job, an interval timer or a timeout timer); the trigger's fire callback *)
(* closes over the key, the merged configs, the callback and tryLock.      *)
(* Job objects are heap cells: a fire callback keeps the reference it read *)
(* from the map across its await, so a cell can outlive its map entry.     *)
(* Every await of the code is an interleaving point of the model.          *)
(***************************************************************************)
EXTENDS Integers, FiniteSets, Bags, TLC

VARIABLES
  jobs,    \* Scheduler.jobs: key -> heap address of the IJob, or None
  heap,    \* address -> job object and the closure of its trigger
  active,  \* handles (addresses) of the triggers that can still fire
  execs,   \* bag of the executions in flight (suspended at an await)
  last     \* how the last step ended: the exception thrown or the path taken

vars == <<jobs, heap, active, execs, last>>

----------------------------------------------------------------------------
(* Bounds of the model *)

NumKeys == 2
MaxObjs == 2
MaxInFlight == 2
MaxRetries == 1
MaxRetryN == 2

Keys == 1..NumKeys
Addrs == 1..MaxObjs
None == 0

----------------------------------------------------------------------------
(* Constants and configuration *)

READY == "READY"
RUNNING == "RUNNING"

\* The defaults object ('./defaults'): the defaults column of the
\* configuration table.
defaults ==
  [enable |-> TRUE, maxRetry |-> -1, retryInterval |-> 5000,
   waiting |-> FALSE, immediate |-> FALSE]

\* A config object is a record holding only the fields its author wrote;
\* an omitted config parameter (undefined) assigns nothing, like {}.
NoConfig == [f \in {} |-> TRUE]

\* Object.assign({}, a, b): b's own fields override a's.
Assign(a, b) ==
  [f \in (DOMAIN a) \cup (DOMAIN b) |-> IF f \in DOMAIN b THEN b[f] ELSE a[f]]

\* JS truthiness of a boolean option that may be absent (undefined).
Truthy(cfg, f) == f \in DOMAIN cfg /\ cfg[f] = TRUE

\* The configs each schedule operation builds for its closure.
CronConfigs(config) == Assign(defaults, config)

IntervalConfigs(config) == Assign(config, config)

TimeoutConfigs(config) == Assign(defaults, config)

RecurrenceConfigs(config) == Assign(defaults, config)

ScheduleOps ==
  {"scheduleCronJob", "scheduleIntervalJob", "scheduleTimeoutJob",
   "scheduleRecurrenceJob"}

ConfigsOf(op, config) ==
  CASE op = "scheduleCronJob" -> CronConfigs(config)
    [] op = "scheduleIntervalJob" -> IntervalConfigs(config)
    [] op = "scheduleTimeoutJob" -> TimeoutConfigs(config)
    [] op = "scheduleRecurrenceJob" -> RecurrenceConfigs(config)

\* The type each schedule operation hands to addJob.
TypeOf(op) ==
  CASE op = "scheduleCronJob" -> "cron"
    [] op = "scheduleIntervalJob" -> "interval"
    [] op = "scheduleTimeoutJob" -> "timeout"
    [] op = "scheduleRecurrenceJob" -> "cron"

----------------------------------------------------------------------------
(* Inputs the operations are called with *)

\* Config arguments, by the policy they exercise.
PolicyConfigs == {[immediate |-> TRUE], [waiting |-> TRUE, immediate |-> TRUE]}

ImmediateConfigs ==
  {[immediate |-> FALSE], [immediate |-> TRUE], [waiting |-> TRUE, immediate |-> TRUE]}

WaitingConfigs == {[waiting |-> TRUE]}

EnableConfigs == {NoConfig, [enable |-> FALSE]}

RetryConfigs == {[maxRetry |-> n] : n \in 0..MaxRetryN}

RegistryConfigs == {NoConfig}

\* tryLock argument: "none" is undefined (no lock provider); the others are
\* functions whose result is always a release function ("grant"), always
\* false ("refuse"), or either ("flaky").
TryLocks == {"none", "grant", "refuse", "flaky"}

RegistryLocks == {"none", "grant"}

----------------------------------------------------------------------------
(* Initial state: the static map is empty, nothing is scheduled *)

Init ==
  /\ jobs = [k \in Keys |-> None]
  /\ heap = [a \in {} |-> None]
  /\ active = {}
  /\ execs = EmptyBag
  /\ last = "ok"

----------------------------------------------------------------------------
(* The registry *)

\* Mutant: the duplicate test never finds the key.
JobExists_Never(js, key) == FALSE

\* assertJobNotExist throws exactly when this holds: this.jobs.has(key).
JobExists(js, key) == js[key] # None

\* Mutant: the waiting test is dropped.
SkipsFiring_Never(configs, status) == FALSE

\* The waiting test at the head of every fire callback and of
\* runJobImmediately: configs.waiting && job.status !== READY.
SkipsFiring(configs, status) == Truthy(configs, "waiting") /\ status # READY

\* Mutant: the entry is deleted but its handle is not released.
CancelJobIn_KeepsHandle(st, hp, key) ==
  [jobs |-> [st.jobs EXCEPT ![key] = None], active |-> st.active]

\* Mutant: the whole map is cleared instead of the one key.
CancelJobIn_ClearsMap(st, hp, key) ==
  IF st.jobs[key] # None
    THEN [jobs |-> [k \in Keys |-> None], active |-> {}]
    ELSE st

\* Mutant: the switch releases cron handles only.
CancelJobIn_CronOnly(st, hp, key) ==
  LET job == st.jobs[key] IN
  IF job # None
    THEN [jobs |-> [st.jobs EXCEPT ![key] = None],
          active |-> IF hp[job].type = "cron"
                       THEN st.active \ {hp[job].handle}
                       ELSE st.active]
    ELSE st

\* cancelJob(key) on the registry st = [jobs, active]: if the key has an
\* entry, release the handle the entry holds (instance.cancel(),
\* clearInterval or clearTimeout, by type) and delete the entry.
CancelJobIn(st, hp, key) ==
  LET job == st.jobs[key] IN
  IF job # None
    THEN [jobs |-> [st.jobs EXCEPT ![key] = None],
          active |-> IF hp[job].type \in {"cron", "interval", "timeout"}
                       THEN st.active \ {hp[job].handle}
                       ELSE st.active]
    ELSE st

\* Mutant: the entry is dereferenced without the `if (job)` test.
CancelJobThrows_OnUnknown(js, key) == js[key] = None

\* cancelJob throws nothing: the entry is only dereferenced under `if (job)`.
CancelJobThrows(js, key) == FALSE

\* cancelJobs(): cancelJob for every key of the map, in key order.
RECURSIVE CancelKeys(_, _, _)
CancelKeys(st, hp, ks) ==
  IF ks = {} THEN st
  ELSE LET k == CHOOSE x \in ks : \A y \in ks : x <= y
       IN CancelKeys(CancelJobIn(st, hp, k), hp, ks \ {k})

\* Mutant: the iteration ends after the first deletion.
CancelJobsIn_FirstOnly(st, hp) ==
  LET ks == {k \in Keys : st.jobs[k] # None} IN
  IF ks = {} THEN st
  ELSE CancelJobIn(st, hp, CHOOSE x \in ks : \A y \in ks : x <= y)

CancelJobsIn(st, hp) ==
  CancelKeys(st, hp, {k \in Keys : st.jobs[k] # None})

\* addJob: the object the map is given for the key.  (Its config field,
\* the caller's raw config, is written here and read nowhere; the cell
\* leaves it out.)
NewJob(key, type, handle) ==
  [key |-> key, type |-> type, handle |-> handle, status |-> READY]

\* What the trigger's fire callback closes over, kept in the job's cell.
Closure(op, configs, tryLock) ==
  [op |-> op, configs |-> configs, tryLock |-> tryLock]

\* The addresses still referenced: by the map, by a live trigger (its
\* closure), or by an execution in flight.  Everything else is garbage.
Referenced(js, act, ex) ==
  ({js[k] : k \in Keys} \ {None}) \cup act
    \cup {e.reg : e \in BagToSet(ex)} \cup {e.job : e \in BagToSet(ex)}

Collect(hp, js, act, ex) ==
  [a \in (DOMAIN hp) \cap Referenced(js, act, ex) |-> hp[a]]

----------------------------------------------------------------------------
(* The Executor: one execution of a job's callback *)

\* What tryLock can resolve to, by lock provider.
LockOutcomes(tryLock) ==
  CASE tryLock = "grant" -> {TRUE}
    [] tryLock = "refuse" -> {FALSE}
    [] OTHER -> BOOLEAN

\* The synchronous head of one attempt: with a lock provider the attempt
\* awaits tryLock; without one it invokes the callback at once.
Attempt(e, tryLock) ==
  IF tryLock # "none"
    THEN [e EXCEPT !.pc = "lock"]
    ELSE [e EXCEPT !.pc = "cb", !.calls = @ + 1]

\* new Executor(configs).execute(key, cb, tryLock), up to its first await.
\* reg is the registration whose closure runs, job the object it read.
StartExecution(reg, job, src, tryLock) ==
  Attempt([reg |-> reg, job |-> job, src |-> src, pc |-> "start",
           calls |-> 0], tryLock)

\* The executor's retry counter: every call but the first is a retry.
Retries(e) == e.calls - 1

\* Mutant: maxRetry -1 retries without bound.
RetryChoices_Unlimited(configs, retry) ==
  IF "maxRetry" \notin DOMAIN configs THEN BOOLEAN
  ELSE IF configs.maxRetry = -1 THEN {TRUE}
  ELSE {retry < configs.maxRetry}

\* After a failed call: the possible decisions to retry.  maxRetry is "the
\* max retry count, default is -1 not retry" (README, config tables); a
\* configs object without maxRetry leaves the decision open.
RetryChoices(configs, retry) ==
  IF "maxRetry" \notin DOMAIN configs THEN BOOLEAN
  ELSE IF configs.maxRetry = -1 THEN {FALSE}
  ELSE {retry < configs.maxRetry}

\* Whether the number of retries is bounded by the configs themselves.
Bounded(configs) == "maxRetry" \in DOMAIN configs /\ configs.maxRetry # -1

\* Mutant: the stop signal is ignored.
CancelsAfter_IgnoresStop(op, src, res) ==
  op = "scheduleTimeoutJob" /\ src = "fire"

\* Mutant: every execution ends with a cancel.
CancelsAfter_Always(op, src, res) == TRUE

\* Whether the caller cancels the job when the execution has returned:
\* the timeout's fire callback always does, the others on needStop.
CancelsAfter(op, src, res) ==
  IF op = "scheduleTimeoutJob" /\ src = "fire" THEN TRUE ELSE res = "stop"

----------------------------------------------------------------------------
(* Registration *)

\* Mutant: the immediate option is ignored.
RunsImmediately_Never(configs, status) == FALSE

\* Whether the schedule operation starts an execution itself: `if
\* (configs.immediate)` it calls runJobImmediately, which applies the
\* waiting test to the job it has just added.
RunsImmediately(configs, status) ==
  Truthy(configs, "immediate") /\ ~SkipsFiring(configs, status)

FreeAddr == CHOOSE x \in Addrs \ DOMAIN heap : \A y \in Addrs \ DOMAIN heap : x <= y

\* The body shared by the four schedule operations: assertJobNotExist,
\* build the configs, register the trigger, addJob, and, if
\* configs.immediate, runJobImmediately up to its first await.
Schedule(op, key, config, tryLock) ==
  IF JobExists(jobs, key)
    THEN /\ last' = "JobRepeatException"
         /\ UNCHANGED <<jobs, heap, active, execs>>
    ELSE
      /\ Addrs \ DOMAIN heap # {}
      /\ LET a == FreeAddr
             configs == ConfigsOf(op, config)
             job == NewJob(key, TypeOf(op), a)
             runs == RunsImmediately(configs, job.status)
             cell == Assign([job EXCEPT !.status = IF runs THEN RUNNING ELSE READY],
                            Closure(op, configs, tryLock))
         IN /\ runs => BagCardinality(execs) < MaxInFlight
            /\ jobs' = [jobs EXCEPT ![key] = a]
            /\ active' = active \cup {a}
            /\ execs' = IF runs
                          THEN execs (+) SetToBag({StartExecution(a, a, "immediate", tryLock)})
                          ELSE execs
            /\ heap' = Collect([x \in (DOMAIN heap) \cup {a} |->
                                  IF x = a THEN cell ELSE heap[x]],
                               jobs', active', execs')
            /\ last' = "ok"

ScheduleCronJob(key, config, tryLock) ==
  Schedule("scheduleCronJob", key, config, tryLock)

ScheduleIntervalJob(key, config, tryLock) ==
  Schedule("scheduleIntervalJob", key, config, tryLock)

ScheduleTimeoutJob(key, config, tryLock) ==
  Schedule("scheduleTimeoutJob", key, config, tryLock)

ScheduleRecurrenceJob(key, config, tryLock) ==
  Schedule("scheduleRecurrenceJob", key, config, tryLock)

\* queueJob(job): merge the defaults under job.config; if enabled, call the
\* schedule operation of job.type with the merged config.
QueueOp(type) ==
  CASE type = "cron" -> "scheduleCronJob"
    [] type = "interval" -> "scheduleIntervalJob"
    [] type = "timeout" -> "scheduleTimeoutJob"

QueueJob(key, type, config, tryLock) ==
  LET merged == Assign(defaults, config) IN
  IF Truthy(merged, "enable")
    THEN Schedule(QueueOp(type), key, merged, tryLock)
    ELSE /\ last' = "disabled"
         /\ UNCHANGED <<jobs, heap, active, execs>>

----------------------------------------------------------------------------
(* Cancellation *)

CancelJob(key) ==
  IF CancelJobThrows(jobs, key)
    THEN /\ last' = "TypeError"
         /\ UNCHANGED <<jobs, heap, active, execs>>
    ELSE LET st == CancelJobIn([jobs |-> jobs, active |-> active], heap, key) IN
         /\ jobs' = st.jobs
         /\ active' = st.active
         /\ heap' = Collect(heap, jobs', active', execs)
         /\ last' = IF jobs[key] = None THEN "unknown" ELSE "cancelled"
         /\ UNCHANGED execs

CancelJobs ==
  LET st == CancelJobsIn([jobs |-> jobs, active |-> active], heap) IN
  /\ jobs' = st.jobs
  /\ active' = st.active
  /\ heap' = Collect(heap, jobs', active', execs)
  /\ last' = "cancelledAll"
  /\ UNCHANGED execs

----------------------------------------------------------------------------
(* A trigger fires: the fire callback up to its first await *)

\* The cron and recurrence callbacks read job!.status without a presence
\* test (TypeError on an absent entry); the interval and timeout callbacks
\* return on an absent entry.
FireOutcome(op, configs, job, hp) ==
  IF job = None
    THEN IF op \in {"scheduleCronJob", "scheduleRecurrenceJob"}
           THEN "TypeError" ELSE "nojob"
    ELSE IF SkipsFiring(configs, hp[job].status) THEN "skip" ELSE "run"

\* Mutant: the status is not set.
Started_Never(hp, job) == hp

\* `job.status = RUNNING` on the object the fire callback has just read.
Started(hp, job) == [hp EXCEPT ![job].status = RUNNING]

Fire(h) ==
  /\ h \in active
  /\ LET c == heap[h]
         job == jobs[c.key]
         out == FireOutcome(c.op, c.configs, job, heap)
     IN /\ out = "run" => BagCardinality(execs) < MaxInFlight
        /\ active' = IF c.op = "scheduleTimeoutJob" THEN active \ {h} ELSE active
        /\ execs' = IF out = "run"
                      THEN execs (+) SetToBag({StartExecution(h, job, "fire", c.tryLock)})
                      ELSE execs
        /\ heap' = Collect(IF out = "run"
                             THEN Started(heap, job)
                             ELSE heap,
                           jobs, active', execs')
        /\ last' = out
        /\ UNCHANGED jobs

----------------------------------------------------------------------------
(* The steps of an execution in flight *)

Replace(e, f) == (execs (-) SetToBag({e})) (+) SetToBag({f})

\* Mutant: the status is not reset.
Settled_Never(hp, job) == hp

\* `job.status = READY` on the object the caller read before the await.
Settled(hp, job) == [hp EXCEPT ![job].status = READY]

\* execute returns res and its caller (a fire callback or
\* runJobImmediately) resumes after `await executor.execute(...)`: the
\* object it read at the start is set READY, and the job is cancelled by
\* key on a stop signal (always, for a timeout firing).  Nothing the caller
\* reads is written between the return and the resumption, so they are one
\* step.
Completes(e, res) ==
  LET c == heap[e.reg]
      hp == Settled(heap, e.job)
      st == IF CancelsAfter(c.op, e.src, res)
              THEN CancelJobIn([jobs |-> jobs, active |-> active], hp, c.key)
              ELSE [jobs |-> jobs, active |-> active]
  IN /\ jobs' = st.jobs
     /\ active' = st.active
     /\ execs' = execs (-) SetToBag({e})
     /\ heap' = Collect(hp, jobs', active', execs')
     /\ last' = res

Continues(e, f) ==
  /\ execs' = Replace(e, f)
  /\ last' = "ok"
  /\ UNCHANGED <<jobs, heap, active>>

\* tryLock settles: false abandons the execution (execute returns false),
\* anything else is the release function and the callback is invoked.
TryLockSettles(e) ==
  /\ e.pc = "lock"
  /\ \E got \in LockOutcomes(heap[e.reg].tryLock) :
       IF got
         THEN Continues(e, [e EXCEPT !.pc = "cb", !.calls = @ + 1])
         ELSE Completes(e, "nolock")

\* The callback returns: its value is the stop signal.
CallbackReturns(e) ==
  /\ e.pc = "cb"
  /\ \E stop \in BOOLEAN : Completes(e, IF stop THEN "stop" ELSE "ok")

\* The callback throws: retry (a fresh attempt after retryInterval, the
\* lock re-acquired) or, retries exhausted, absorb the failure (false).
CallbackThrows(e) ==
  /\ e.pc = "cb"
  /\ LET c == heap[e.reg] IN
     \E again \in RetryChoices(c.configs, Retries(e)) :
       IF again
         THEN /\ ~Bounded(c.configs) => Retries(e) < MaxRetries
              /\ Continues(e, Attempt(e, c.tryLock))
         ELSE Completes(e, "exhausted")

----------------------------------------------------------------------------
(* The system *)

Types == {"cron", "interval", "timeout"}

\* The system driven with keys KS, configs CS and lock providers TS.
NextOn(KS, CS, TS) ==
  \/ \E k \in KS, c \in CS, t \in TS : ScheduleCronJob(k, c, t)
  \/ \E k \in KS, c \in CS, t \in TS : ScheduleIntervalJob(k, c, t)
  \/ \E k \in KS, c \in CS, t \in TS : ScheduleTimeoutJob(k, c, t)
  \/ \E k \in KS, c \in CS, t \in TS : ScheduleRecurrenceJob(k, c, t)
  \/ \E k \in KS, y \in Types, c \in CS, t \in TS : QueueJob(k, y, c, t)
  \/ \E k \in KS : CancelJob(k)
  \/ CancelJobs
  \/ \E h \in active : Fire(h)
  \/ \E e \in BagToSet(execs) : TryLockSettles(e)
  \/ \E e \in BagToSet(execs) : CallbackReturns(e)
  \/ \E e \in BagToSet(execs) : CallbackThrows(e)

\* The registry under every operation, two keys, default policy.
Next == NextOn(Keys, RegistryConfigs, RegistryLocks)

Spec == Init /\ [][Next]_vars

\* One key under the waiting and immediate policies.
NextPolicy == NextOn({1}, PolicyConfigs, {"none", "grant"})

SpecPolicy == Init /\ [][NextPolicy]_vars

\* One key, enabled and disabled jobs.
NextEnable == NextOn({1}, EnableConfigs, {"none", "grant"})

SpecEnable == Init /\ [][NextEnable]_vars

\* One key under lock providers that grant, refuse, or do either.
NextLock == NextOn({1}, {NoConfig}, {"grant", "refuse", "flaky"})

SpecLock == Init /\ [][NextLock]_vars

\* One key registered with and without the immediate option.
NextImmediate == NextOn({1}, ImmediateConfigs, {"none", "grant"})

SpecImmediate == Init /\ [][NextImmediate]_vars

\* Two keys under the waiting policy.
NextIndep == NextOn(Keys, WaitingConfigs, {"none", "grant"})

SpecIndep == Init /\ [][NextIndep]_vars

\* A step of some execution in flight.
ExecStep ==
  \E e \in BagToSet(execs) :
    TryLockSettles(e) \/ CallbackReturns(e) \/ CallbackThrows(e)

\* One key under the waiting policy, every execution running to its end:
\* the event loop resumes every settled await, and the callbacks and lock
\* providers are taken to settle.
NextWaiting == NextOn({1}, WaitingConfigs, {"none", "grant"})

SpecWaitingLive == Init /\ [][NextWaiting]_vars /\ WF_vars(ExecStep)

\* One key under bounded retry policies, with and without a lock.
NextRetry == NextOn({1}, RetryConfigs, {"none", "flaky"})

SpecRetry == Init /\ [][NextRetry]_vars

----------------------------------------------------------------------------
(* Properties *)

\* The mutants the properties are tested against are defined with the
\* definitions they alter; the statements follow.

\* The executions in flight that run the closure of registration a.
NumExecs(ex, a) ==
  BagCardinality([e \in {x \in BagToSet(ex) : x.reg = a} |-> ex[e]])

\* A registration whose map entry is gone (or replaced) but whose cell is
\* still held by an execution in flight.
Orphan(a) == a \in DOMAIN heap /\ jobs[heap[a].key] # a

\* C1: a schedule operation on a key that is already registered throws the
\* duplicate-job exception and leaves the map, the job objects, the
\* triggers and the executions in flight exactly as they were.
C1_DuplicateKeyRejected ==
  [][\A k \in Keys, op \in ScheduleOps, c \in RegistryConfigs, t \in RegistryLocks :
       (jobs[k] # None /\ Schedule(op, k, c, t))
         => /\ last' = "JobRepeatException"
            /\ UNCHANGED <<jobs, heap, active, execs>>]_vars

C1_Witness ==
  /\ last = "JobRepeatException"
  /\ \E k \in Keys : jobs[k] # None /\ jobs[k] \in active
                       /\ heap[jobs[k]].status = READY

\* C2: a firing of a job whose configs have waiting set, while the job's
\* status is RUNNING, returns at once: no execution starts (no lock
\* attempt, no call, no retry) and the map and the job objects are unchanged.
C2_WaitingSkipsWhileRunning ==
  [][\A h \in active :
       LET job == jobs[heap[h].key] IN
       (/\ job # None
        /\ Truthy(heap[h].configs, "waiting")
        /\ heap[job].status = RUNNING
        /\ Fire(h))
         => /\ last' = "skip"
            /\ UNCHANGED <<jobs, heap, execs>>]_vars

C2_Witness ==
  /\ last = "skip"
  /\ \E k \in Keys :
       /\ jobs[k] # None
       /\ heap[jobs[k]].status = RUNNING
       /\ NumExecs(execs, jobs[k]) = 1

\* C3: when an execution of a cron, recurrence or interval job (a firing
\* or the immediate run) ends with a truthy stop signal, the completion
\* removes the key from the map and releases the trigger, and no trigger
\* that fires for this key is left.
C3_StopSignalCancels ==
  [][\A e \in BagToSet(execs) :
       LET c == heap[e.reg] IN
       (/\ c.op # "scheduleTimeoutJob"
        /\ e.pc = "cb"
        /\ Completes(e, "stop"))
         => /\ jobs'[c.key] = None
            /\ c.handle \notin active'
            /\ \A h \in active' : heap'[h].key # c.key]_vars

C3_Witness ==
  /\ last = "stop"
  /\ active = {}
  /\ \A k \in Keys : jobs[k] = None
  /\ \E a \in DOMAIN heap :
       heap[a].op = "scheduleIntervalJob" /\ NumExecs(execs, a) = 1

\* C4 (as claimed): once a timeout job's timer has gone off, the job stays
\* in the map only for as long as that firing is being handled; this for
\* every waiting and immediate setting.
C4_TimeoutGoneAfterFiring ==
  \A k \in Keys :
    LET a == jobs[k] IN
    (a # None /\ heap[a].op = "scheduleTimeoutJob" /\ a \notin active)
      => \E e \in BagToSet(execs) : e.reg = a /\ e.src = "fire"

\* C5: cancelJob on a registered key removes the key, releases the handle
\* its entry holds and touches no execution in flight nor the cell it
\* reads; and a registration whose entry is gone starts no execution.
C5_CancelStopsFutureRuns ==
  [][/\ \A k \in Keys :
          (jobs[k] # None /\ CancelJob(k))
            => /\ jobs'[k] = None
               /\ heap[jobs[k]].handle \notin active'
               /\ execs' = execs
               /\ \A e \in BagToSet(execs) :
                    e.job \in DOMAIN heap' /\ heap'[e.job] = heap[e.job]
      /\ \A a \in DOMAIN heap :
          Orphan(a) => /\ a \notin active
                       /\ NumExecs(execs', a) <= NumExecs(execs, a)]_vars

C5_Witness ==
  /\ last = "cancelled"
  /\ \E a \in DOMAIN heap :
       /\ Orphan(a)
       /\ a \notin active
       /\ NumExecs(execs, a) >= 1
       /\ heap[a].status = RUNNING

\* C6 (as claimed): a registration whose configs have enable = false has
\* no trigger and no execution.
C6_DisabledNeverTriggered ==
  \A a \in DOMAIN heap :
    ("enable" \in DOMAIN heap[a].configs /\ heap[a].configs.enable = FALSE)
      => a \notin active /\ NumExecs(execs, a) = 0

\* C7: cancelJob on a key that is not in the map throws nothing and
\* changes neither the map, nor any job object, trigger or execution.
C7_CancelUnknownIsNoOp ==
  [][\A k \in Keys :
       (jobs[k] = None /\ CancelJob(k))
         => /\ last' = "unknown"
            /\ UNCHANGED <<jobs, heap, active, execs>>]_vars

C7_Witness ==
  /\ last = "unknown"
  /\ \E k \in Keys : jobs[k] = None
  /\ \E k \in Keys :
       /\ jobs[k] # None
       /\ jobs[k] \in active
       /\ NumExecs(execs, jobs[k]) >= 1

\* C8: cancelJobs leaves the map empty and every handle a map entry held
\* released; no trigger at all is left to fire.
C8_CancelJobsEmptiesRegistry ==
  [][CancelJobs
       => /\ \A k \in Keys : jobs'[k] = None
          /\ \A k \in Keys :
               jobs[k] # None => heap[jobs[k]].handle \notin active'
          /\ active' = {}
          /\ execs' = execs]_vars

C8_Witness ==
  /\ last = "cancelledAll"
  /\ \A k \in Keys : jobs[k] = None
  /\ active = {}
  /\ Cardinality({a \in DOMAIN heap : NumExecs(execs, a) >= 1}) = 2

\* The firing of a timeout job: the one execution that always ends with
\* a cancel.
TimeoutFiring(e) == heap[e.reg].op = "scheduleTimeoutJob" /\ e.src = "fire"

\* An execution under a lock provider that always refuses never calls.
RefusedNeverCall(ex, hp) ==
  \A e \in BagToSet(ex) :
    hp[e.reg].tryLock = "refuse" => e.pc = "lock" /\ e.calls = 0

\* C9 (as claimed): under a lock provider that always refuses, an execution
\* never calls the callback and never retries; it ends at the refusal with
\* the status READY and the job still registered.
C9_LockRefusedKeepsJob ==
  [][/\ RefusedNeverCall(execs', heap')
     /\ \A e \in BagToSet(execs) :
          (heap[e.reg].tryLock = "refuse" /\ TryLockSettles(e))
            => /\ last' = "nolock"
               /\ execs' = execs (-) SetToBag({e})
               /\ e.job \in DOMAIN heap' => heap'[e.job].status = READY
               /\ jobs' = jobs]_vars

\* C9 (amended): the same, except that the firing of a timeout job ends,
\* as every timeout firing does, with the job cancelled.
C9_LockRefusedNoCall ==
  [][/\ RefusedNeverCall(execs', heap')
     /\ \A e \in BagToSet(execs) :
          (heap[e.reg].tryLock = "refuse" /\ TryLockSettles(e))
            => /\ last' = "nolock"
               /\ execs' = execs (-) SetToBag({e})
               /\ e.job \in DOMAIN heap' => heap'[e.job].status = READY
               /\ IF TimeoutFiring(e)
                    THEN jobs'[heap[e.reg].key] = None
                    ELSE jobs' = jobs]_vars

C9_Witness ==
  /\ last = "nolock"
  /\ execs = EmptyBag
  /\ \E k \in Keys :
       /\ jobs[k] # None
       /\ DOMAIN heap = {jobs[k]}
       /\ heap[jobs[k]].tryLock = "refuse"
       /\ heap[jobs[k]].op = "scheduleIntervalJob"
       /\ heap[jobs[k]].status = READY
       /\ jobs[k] \in active

\* An execution all of whose calls failed comes to its end: the last call
\* throws with the retries exhausted, or a retry is abandoned at the lock.
EndsFailed(e) ==
  \/ e.pc = "cb" /\ Completes(e, "exhausted")
  \/ e.pc = "lock" /\ e.calls >= 1 /\ Completes(e, "nolock")

\* C10 (as claimed): with maxRetry = n >= 0, an execution whose calls all
\* fail makes exactly n + 1 calls; the failure is absorbed, the status is
\* READY again and the job is still registered.
C10_RetriesThenKeepsJob ==
  [][\A e \in BagToSet(execs) :
       LET c == heap[e.reg] IN
       (Bounded(c.configs) /\ c.configs.maxRetry >= 0 /\ EndsFailed(e))
         => /\ e.calls = c.configs.maxRetry + 1
            /\ last' = "exhausted"
            /\ e.job \in DOMAIN heap' => heap'[e.job].status = READY
            /\ jobs' = jobs]_vars

\* C10 (amended): the same for an execution that is granted the lock at
\* every attempt (or has no lock provider), except that the firing of a
\* timeout job ends with the job cancelled.
C10_RetriesExhausted ==
  [][\A e \in BagToSet(execs) :
       LET c == heap[e.reg] IN
       (/\ Bounded(c.configs) /\ c.configs.maxRetry >= 0
        /\ e.pc = "cb" /\ Completes(e, "exhausted"))
         => /\ e.calls = c.configs.maxRetry + 1
            /\ last' = "exhausted"
            /\ e.job \in DOMAIN heap' => heap'[e.job].status = READY
            /\ IF TimeoutFiring(e)
                 THEN jobs'[c.key] = None
                 ELSE jobs' = jobs]_vars

C10_Witness ==
  /\ last = "exhausted"
  /\ execs = EmptyBag
  /\ \E k \in Keys :
       /\ jobs[k] # None
       /\ DOMAIN heap = {jobs[k]}
       /\ heap[jobs[k]].configs.maxRetry = MaxRetryN
       /\ heap[jobs[k]].op = "scheduleCronJob"
       /\ heap[jobs[k]].status = READY
       /\ jobs[k] \in active

\* C11 (as claimed): every schedule operation builds, for the executions of
\* the job it registers, the caller's config laid over the defaults: a
\* field the caller omits has its default, a field the caller gives wins.
C11_ConfigOverDefaults ==
  [][\A k \in Keys, op \in ScheduleOps, c \in PolicyConfigs, t \in {"none", "grant"} :
       (jobs[k] = None /\ Schedule(op, k, c, t))
         => heap'[jobs'[k]].configs = Assign(defaults, c)]_vars

\* The executions in flight that read job object a at their start and
\* write its status at their end.
NumOn(ex, a) ==
  BagCardinality([e \in {x \in BagToSet(ex) : x.job = a} |-> ex[e]])

\* The life of the status of the job objects in WS, over one step: a new
\* object is READY, or RUNNING with the one execution its registration
\* started; the status of an object changes only READY -> RUNNING with one
\* execution more on it and RUNNING -> READY with one less; an execution
\* starts on an object only when it is READY and ends only when RUNNING.
StatusAlternates(WS) ==
  /\ \A a \in (DOMAIN heap') \ (DOMAIN heap) :
       heap'[a].status = (IF NumOn(execs', a) = 1 THEN RUNNING ELSE READY)
  /\ \A a \in (DOMAIN heap) \cap (DOMAIN heap') \cap WS :
       LET n == NumOn(execs, a)
           m == NumOn(execs', a)
       IN /\ m \in {n - 1, n, n + 1}
          /\ m = n + 1 => heap[a].status = READY /\ heap'[a].status = RUNNING
          /\ m = n - 1 => heap[a].status = RUNNING /\ heap'[a].status = READY
          /\ m = n => heap'[a].status = heap[a].status

\* The job objects, before or after the step, whose configs set waiting.
WaitingObjs(hp) == {a \in DOMAIN hp : Truthy(hp[a].configs, "waiting")}

\* C12 (as claimed): the status of every job, whatever its waiting
\* setting, starts READY and only alternates READY -> RUNNING (an execution
\* starts) and RUNNING -> READY (an execution ends); no execution starts
\* while the status is RUNNING.
C12_StatusAlternates == [][StatusAlternates(DOMAIN heap)]_vars

\* C12 (amended): the same for the jobs whose configs set waiting.
C12_StatusAlternatesWaiting == [][StatusAlternates(WaitingObjs(heap))]_vars

\* A waiting job back at READY at the end of an execution that failed.
C12_Witness ==
  /\ last = "exhausted"
  /\ execs = EmptyBag
  /\ \E k \in Keys :
       /\ jobs[k] # None
       /\ jobs[k] \in active
       /\ Truthy(heap[jobs[k]].configs, "waiting")
       /\ heap[jobs[k]].status = READY

\* How an execution can end.
Results == {"ok", "stop", "exhausted", "nolock"}

\* C13 (as claimed): when the registration an execution runs for has been
\* cancelled while the execution was in flight, the cancel the caller
\* issues at its completion (on a stop signal; always, for a timeout
\* firing) removes no entry from the map and releases no trigger.
C13_LateCancelIsNoOp ==
  [][\A e \in BagToSet(execs), res \in Results :
       (/\ Orphan(e.reg)
        /\ CancelsAfter(heap[e.reg].op, e.src, res)
        /\ Completes(e, res))
         => jobs' = jobs /\ active' = active]_vars

\* The executions that run under maxRetry = -1.
DefaultMaxRetry(e) ==
  "maxRetry" \in DOMAIN heap[e.reg].configs /\ heap[e.reg].configs.maxRetry = -1

C15_ImmediateRunsOnce ==
  [][/\ \A a \in (DOMAIN heap') \ (DOMAIN heap) :
          /\ jobs[heap'[a].key] = None
          /\ jobs'[heap'[a].key] = a
          /\ a \in active'
          /\ IF Truthy(heap'[a].configs, "immediate")
               THEN /\ BagCardinality(execs') = BagCardinality(execs) + 1
                    /\ NumOn(execs', a) = 1
                    /\ \E e \in BagToSet(execs') :
                         e.job = a /\ e.reg = a /\ e.src = "immediate"
                    /\ heap'[a].status = RUNNING
               ELSE /\ execs' = execs
                    /\ heap'[a].status = READY
     /\ \A e \in BagToSet(execs), res \in Results :
          (e.src = "immediate" /\ Completes(e, res))
            => /\ e.job \in DOMAIN heap' => heap'[e.job].status = READY
               /\ IF res = "stop"
                    THEN jobs'[heap[e.reg].key] = None
                    ELSE jobs' = jobs /\ active' = active]_vars

\* The immediate run of a timeout job registered in the last step is in
\* flight, the timer still pending.
C15_Witness ==
  /\ last = "ok"
  /\ \E e \in BagToSet(execs) :
       /\ e.src = "immediate"
       /\ e.pc = "cb"
       /\ e.reg = e.job
       /\ heap[e.job].status = RUNNING
       /\ heap[e.reg].op = "scheduleTimeoutJob"
       /\ jobs[heap[e.reg].key] = e.reg
       /\ e.reg \in active
       /\ BagCardinality(execs) = 1

\* The step is an operation on key A: a registration of A, cancelJob(A),
\* a firing of a trigger of A, or a step of an execution of A.
StepOn(A) ==
  \/ \E a \in (DOMAIN heap') \ (DOMAIN heap) : heap'[a].key = A
  \/ CancelJob(A)
  \/ \E h \in active : heap[h].key = A /\ Fire(h)
  \/ \E e \in BagToSet(execs) :
       /\ heap[e.reg].key = A
       /\ TryLockSettles(e) \/ CallbackReturns(e) \/ CallbackThrows(e)

\* The executions in flight of the registrations of key B.
ExecsOf(ex, hp, B) == [e \in {x \in BagToSet(ex) : hp[x.reg].key = B} |-> ex[e]]

\* The step leaves everything of key B as it was: its map entry, its job
\* objects (status included), its triggers and its executions.
Untouched(B) ==
  /\ jobs'[B] = jobs[B]
  /\ \A a \in DOMAIN heap :
       heap[a].key = B
         => /\ a \in DOMAIN heap' /\ heap'[a] = heap[a]
            /\ (a \in active') = (a \in active)
  /\ ExecsOf(execs', heap', B) = ExecsOf(execs, heap, B)

\* C16: an operation on key A (registration, cancelJob, firing, or a
\* step of an execution: lock, call, failure, retry, completion, cancel on
\* the stop signal) leaves everything of every other key B untouched; and
\* a firing is skipped only on its own job's waiting policy and status: it
\* runs whenever its own job is READY, whatever the other jobs are doing.
C16_KeysIndependent ==
  [][/\ \A A \in Keys : StepOn(A) => \A B \in Keys \ {A} : Untouched(B)
     /\ \A h \in active :
          LET job == jobs[heap[h].key] IN
          (job # None /\ Fire(h))
            => /\ heap[job].status = READY => last' = "run"
               /\ last' = "skip" => Truthy(heap[h].configs, "waiting")]_vars

\* Job 2 has just been fired and runs while job 1, a waiting job, is
\* RUNNING with an execution in flight.
C16_Witness ==
  /\ last = "run"
  /\ jobs[1] # None /\ jobs[2] # None
  /\ Truthy(heap[jobs[1]].configs, "waiting")
  /\ heap[jobs[1]].status = RUNNING /\ NumOn(execs, jobs[1]) = 1
  /\ heap[jobs[2]].status = RUNNING /\ NumOn(execs, jobs[2]) = 1
  /\ \E e \in BagToSet(execs) : e.job = jobs[2] /\ e.src = "fire" /\ e.calls = 0

\* A registered cron, recurrence or interval job with waiting set.
WaitingRecurring(a) ==
  /\ a \in DOMAIN heap
  /\ jobs[heap[a].key] = a
  /\ heap[a].op # "scheduleTimeoutJob"
  /\ Truthy(heap[a].configs, "waiting")

\* C17: for a registered recurring job with waiting set, executions
\* running to their end: a firing is skipped only while an execution of
\* the job is in flight; a RUNNING status leads to READY (or to the job
\* leaving the map); and a firing that finds the job READY is executed.
C17_WaitingNeverBlocks ==
  /\ [][\A h \in active :
          (WaitingRecurring(h) /\ Fire(h))
            => /\ last' = "skip" => NumOn(execs, h) >= 1
               /\ heap[h].status = READY => last' = "run" /\ NumOn(execs', h) = 1]_vars
  /\ \A a \in Addrs :
       (WaitingRecurring(a) /\ heap[a].status = RUNNING)
         ~> (~WaitingRecurring(a) \/ heap[a].status = READY)

\* A firing of a waiting cron job has just been skipped while the
\* execution an earlier firing started is in flight.
C17_Witness ==
  /\ last = "skip"
  /\ \E e \in BagToSet(execs) :
       /\ e.src = "fire"
       /\ e.reg = e.job
       /\ WaitingRecurring(e.job)
       /\ heap[e.job].op = "scheduleCronJob"
       /\ heap[e.job].status = RUNNING
       /\ e.reg \in active

\* C18 (as claimed): while a key is registered with waiting set, at most
\* one execution of the key is in flight, those of earlier, cancelled
\* registrations of the key included.
C18_OneInFlightPerKey ==
  \A k \in Keys :
    (jobs[k] # None /\ Truthy(heap[jobs[k]].configs, "waiting"))
      => BagCardinality(ExecsOf(execs, heap, k)) <= 1

\* C18 (amended): at most one execution is in flight per registration
\* with waiting set, counted by the closure that runs and by the job
\* object it runs on.
C18_OneInFlightPerRegistration ==
  \A a \in DOMAIN heap :
    Truthy(heap[a].configs, "waiting")
      => NumOn(execs, a) <= 1 /\ NumExecs(execs, a) <= 1

\* The key has been cancelled and registered again with an execution of
\* the earlier registration in flight, and the new registration runs too.
C18_Witness ==
  \E k \in Keys, a \in DOMAIN heap :
    /\ jobs[k] # None /\ jobs[k] # a
    /\ heap[a].key = k
    /\ Truthy(heap[a].configs, "waiting")
    /\ Truthy(heap[jobs[k]].configs, "waiting")
    /\ NumOn(execs, a) = 1
    /\ NumOn(execs, jobs[k]) = 1
    /\ heap[jobs[k]].status = RUNNING

\* C19 (as claimed): the status of every registered job, whatever its
\* waiting setting, is RUNNING exactly when an execution on the job is in
\* flight and READY exactly when none is.
C19_StatusTracksExecutions ==
  \A k \in Keys :
    jobs[k] # None
      => (heap[jobs[k]].status = RUNNING <=> NumOn(execs, jobs[k]) >= 1)

\* C19 (amended): the same for the registered jobs with waiting set, for
\* which the execution in flight is then the only one.
C19_StatusTracksExecutionsWaiting ==
  \A k \in Keys :
    (jobs[k] # None /\ Truthy(heap[jobs[k]].configs, "waiting"))
      => /\ heap[jobs[k]].status \in {READY, RUNNING}
         /\ heap[jobs[k]].status = RUNNING <=> NumOn(execs, jobs[k]) = 1
         /\ heap[jobs[k]].status = READY <=> NumOn(execs, jobs[k]) = 0

\* A waiting job is READY with none of its executions in flight while an
\* execution of an earlier registration of its key is still running.
C19_Witness ==
  \E k \in Keys, a \in DOMAIN heap :
    /\ jobs[k] # None /\ jobs[k] # a
    /\ heap[a].key = k
    /\ Truthy(heap[jobs[k]].configs, "waiting")
    /\ heap[jobs[k]].status = READY
    /\ NumOn(execs, jobs[k]) = 0
    /\ heap[a].status = RUNNING
    /\ NumOn(execs, a) >= 1

\* C20: every trigger that can still fire is the handle of the map entry
\* of its key; so no firing finds its key absent (neither the TypeError of
\* the cron and recurrence callbacks nor the early return of the interval
\* and timeout callbacks ever happens) and no trigger outlives its entry.
C20_TriggersBelongToEntries ==
  /\ \A h \in active :
       /\ h \in DOMAIN heap
       /\ jobs[heap[h].key] = h
       /\ heap[h].handle = h
  /\ last \notin {"TypeError", "nojob"}

\* A cron or recurrence trigger has just fired and found its own entry,
\* the key having been registered before and cancelled, with an execution
\* of that earlier registration still in flight and its trigger gone.
C20_Witness ==
  /\ last = "run"
  /\ \E e \in BagToSet(execs), a \in DOMAIN heap :
       /\ e.src = "fire" /\ e.calls = 0
       /\ heap[e.reg].type = "cron"
       /\ jobs[heap[e.reg].key] = e.reg
       /\ e.job = e.reg
       /\ e.reg \in active
       /\ a # e.reg
       /\ heap[a].key = heap[e.reg].key
       /\ a \notin active
       /\ NumExecs(execs, a) = 1

====
